---- MODULE Spec2Model ----
(***************************************************************************)
(* A model of git-simple-merge.py: the conflict-marker parser              *)
(* (get_conflicts), the context windowing (extract_context), the           *)
(* whole-file renderer (display_file_view), the interactive controller     *)
(* (process_file) and the file driver (main).                              *)
(*                                                                         *)
(* Lines are sequences of one-character strings, so that                   *)
(* str.startswith is computed and not assumed.  Line and hunk indices are  *)
(* the zero-based indices of the Python code.                              *)
(***************************************************************************)
EXTENDS Integers, Sequences, FiniteSets, TLC

VARIABLES
    argv_mergetool, \* sys.argv[1] == '--mergetool'
    env_set,        \* all of LOCAL, BASE, REMOTE, MERGED are set
    merged,         \* os.environ['MERGED']
    unmerged,       \* what get_conflicted_files() returns
    files,          \* the working tree: path -> list of lines
    unreadable,     \* the paths whose open() raises IOError
    staged,         \* the paths added to the index by repo.index.add
    view_mode,      \* self.view_mode
    context_lines,  \* self.context_lines
    pc,             \* where main is
    todo,           \* the paths the for loop of main has still to visit
    file_path,      \* process_file's file_path
    content,        \* the lines get_conflicts (or extract_context) was given
    hunks,          \* process_file's hunks
    choice,         \* the last value prompt_user returned
    display,        \* what the last display of process_file rendered
    editor_rc,      \* exit status of the last editor run of this process_file
                    \* call (-1: none yet)
    ccount,         \* number of 'c' commands so far (saturates at MaxMoreContext)
    parsed,         \* the paths get_conflicts was called on, in call order
    start,          \* extract_context's start
    end,            \* extract_context's end
    window          \* what extract_context returned last

vars == <<argv_mergetool, env_set, merged, unmerged, files, unreadable, staged,
          view_mode, context_lines, pc, todo, file_path, content, hunks,
          choice, display, editor_rc, ccount, parsed, start, end, window>>

-----------------------------------------------------------------------------
(* Bounds of the model. *)

\* longest arbitrary run of marker/plain lines in a parsed file
MaxCore == 6
\* number of plain lines put before and after that run
MaxPad == 4
\* longest file given to extract_context on its own
MaxWinLen == 12
\* the 'c' commands counted exactly before ccount saturates
MaxMoreContext == 4

-----------------------------------------------------------------------------
(* Program constants. *)

InitialContext == 3
ContextStep == 3
ContextCap == 10

Min(a, b) == IF a < b THEN a ELSE b
Max(a, b) == IF a > b THEN a ELSE b

\* the values self.context_lines takes: 3, then min(+3, 10) repeatedly
ContextSizes == {InitialContext,
                 Min(InitialContext + ContextStep, ContextCap),
                 Min(InitialContext + 2 * ContextStep, ContextCap),
                 ContextCap}

-----------------------------------------------------------------------------
(* Lines. *)

StartTok == <<"<", "<", "<", "<", "<", "<", "<">>
SepTok == <<"=", "=", "=", "=", "=", "=", "=">>
EndTok == <<">", ">", ">", ">", ">", ">", ">">>

\* variant: the last character of the token is not compared
StartsWithLoose(line, tok) ==
    /\ Len(line) >= Len(tok) - 1
    /\ SubSeq(line, 1, Len(tok) - 1) = SubSeq(tok, 1, Len(tok) - 1)

\* str.startswith
StartsWith(line, tok) ==
    /\ Len(line) >= Len(tok)
    /\ SubSeq(line, 1, Len(tok)) = tok

Letters == <<"a", "b", "c", "d", "e", "f", "g", "h", "i", "j", "k", "l", "m",
             "n", "o", "p", "q", "r", "s", "t", "u", "v", "w", "x", "y", "z">>

Letter(i) == Letters[(i % Len(Letters)) + 1]

\* The text of the line of kind k at zero-based index i.  Every line carries
\* the letter of its index, so the lines of one file are pairwise distinct.
\* Plain lines include near misses of the markers: six '<', and a separator
\* that does not start the line.
LineOf(k, i) ==
    CASE k = "S" -> StartTok \o <<" ", Letter(i), "\n">>
      [] k = "M" -> SepTok \o <<Letter(i), "\n">>
      [] k = "E" -> EndTok \o <<" ", Letter(i), "\n">>
      [] OTHER   -> IF i % 3 = 1
                    THEN SubSeq(StartTok, 1, 6) \o <<Letter(i), "\n">>
                    ELSE IF i % 3 = 2
                         THEN <<" ">> \o SepTok \o <<Letter(i), "\n">>
                         ELSE <<Letter(i), "\n">>

Kinds == {"S", "M", "E", "P"}

\* the file whose line kinds are ks
Build(ks) == [i \in 1..Len(ks) |-> LineOf(ks[i], i - 1)]

Plains(n) == [i \in 1..n |-> "P"]

IsMarker(line) ==
    \/ StartsWith(line, StartTok)
    \/ StartsWith(line, SepTok)
    \/ StartsWith(line, EndTok)

-----------------------------------------------------------------------------
(* Python list slicing content[lo:hi]: negative indices count from the     *)
(* end, both ends are clipped to the list.                                 *)

PyIndex(n, i) == IF i < 0 THEN Max(0, n + i) ELSE Min(i, n)

PySlice(s, lo, hi) == SubSeq(s, PyIndex(Len(s), lo) + 1, PyIndex(Len(s), hi))

-----------------------------------------------------------------------------
(* extract_context *)

\* variant: the first lines of the file instead of the last ones before start
extract_context_head(c, s, e, k) ==
    [before |-> PySlice(c, 0, Min(s, k)),
     after  |-> PySlice(c, e, Min(Len(c), e + k))]

\* variant: the after-window starts one line early
extract_context_inclusive(c, s, e, k) ==
    [before |-> PySlice(c, Max(0, s - k), s),
     after  |-> PySlice(c, e - 1, Min(Len(c), e + k))]

extract_context(c, s, e, k) ==
    [before |-> PySlice(c, Max(0, s - k), s),
     after  |-> PySlice(c, e, Min(Len(c), e + k))]

-----------------------------------------------------------------------------
(* get_conflicts *)

ConflictHunk(header, i) ==
    [header |-> header, ours |-> <<>>, theirs |-> <<>>,
     context_before |-> <<>>, context_after |-> <<>>, start_line |-> i]

\* current_hunk with its context set, as appended to hunks
Finalize(h, c, s, e, k) ==
    [h EXCEPT !.context_before = extract_context(c, s, e, k).before,
              !.context_after = extract_context(c, s, e, k).after]

\* the state of the scan before the first line: no hunk is open
\* (cur is <<>> for None, <<h>> for an open hunk; hunk_start -1 for None)
ScanInit == [hunks |-> <<>>, cur |-> <<>>, state |-> "none", hunk_start |-> -1]

\* variant: a start marker met while a hunk is open drops that hunk
ScanStepNested(st, c, i, k) ==
    LET line == c[i + 1] IN
    IF StartsWith(line, StartTok)
    THEN [hunks |-> st.hunks,
          cur |-> <<ConflictHunk(line, i)>>, state |-> "ours", hunk_start |-> i]
    ELSE IF StartsWith(line, SepTok) /\ st.state = "ours"
    THEN [st EXCEPT !.state = "theirs"]
    ELSE IF StartsWith(line, EndTok) /\ st.state = "theirs"
    THEN [hunks |-> Append(st.hunks,
                      Finalize([st.cur[1] EXCEPT !.theirs = Append(@, line)],
                               c, st.hunk_start, i + 1, k)),
          cur |-> <<>>, state |-> "none", hunk_start |-> st.hunk_start]
    ELSE IF st.cur # <<>> /\ st.state # "none"
    THEN IF st.state = "ours"
         THEN [st EXCEPT !.cur = <<[st.cur[1] EXCEPT !.ours = Append(@, line)]>>]
         ELSE [st EXCEPT !.cur = <<[st.cur[1] EXCEPT !.theirs = Append(@, line)]>>]
    ELSE st

\* variant: the separator line is kept in ours
ScanStepSepKept(st, c, i, k) ==
    LET line == c[i + 1] IN
    IF StartsWith(line, StartTok)
    THEN [hunks |-> IF st.cur # <<>>
                    THEN Append(st.hunks,
                                Finalize(st.cur[1], c, st.hunk_start, i, k))
                    ELSE st.hunks,
          cur |-> <<ConflictHunk(line, i)>>, state |-> "ours", hunk_start |-> i]
    ELSE IF StartsWith(line, SepTok) /\ st.state = "ours"
    THEN [st EXCEPT !.state = "theirs",
                    !.cur = <<[st.cur[1] EXCEPT !.ours = Append(@, line)]>>]
    ELSE IF StartsWith(line, EndTok) /\ st.state = "theirs"
    THEN [hunks |-> Append(st.hunks,
                      Finalize([st.cur[1] EXCEPT !.theirs = Append(@, line)],
                               c, st.hunk_start, i + 1, k)),
          cur |-> <<>>, state |-> "none", hunk_start |-> st.hunk_start]
    ELSE IF st.cur # <<>> /\ st.state # "none"
    THEN IF st.state = "ours"
         THEN [st EXCEPT !.cur = <<[st.cur[1] EXCEPT !.ours = Append(@, line)]>>]
         ELSE [st EXCEPT !.cur = <<[st.cur[1] EXCEPT !.theirs = Append(@, line)]>>]
    ELSE st

\* variant: ours lines are collected in reverse order
ScanStepSwapped(st, c, i, k) ==
    LET line == c[i + 1] IN
    IF StartsWith(line, StartTok)
    THEN [hunks |-> IF st.cur # <<>>
                    THEN Append(st.hunks,
                                Finalize(st.cur[1], c, st.hunk_start, i, k))
                    ELSE st.hunks,
          cur |-> <<ConflictHunk(line, i)>>, state |-> "ours", hunk_start |-> i]
    ELSE IF StartsWith(line, SepTok) /\ st.state = "ours"
    THEN [st EXCEPT !.state = "theirs"]
    ELSE IF StartsWith(line, EndTok) /\ st.state = "theirs"
    THEN [hunks |-> Append(st.hunks,
                      Finalize([st.cur[1] EXCEPT !.theirs = Append(@, line)],
                               c, st.hunk_start, i + 1, k)),
          cur |-> <<>>, state |-> "none", hunk_start |-> st.hunk_start]
    ELSE IF st.cur # <<>> /\ st.state # "none"
    THEN IF st.state = "ours"
         THEN [st EXCEPT !.cur = <<[st.cur[1] EXCEPT !.ours = <<line>> \o @]>>]
         ELSE [st EXCEPT !.cur = <<[st.cur[1] EXCEPT !.theirs = Append(@, line)]>>]
    ELSE st

\* one iteration of the for loop, on line i of c
ScanStep(st, c, i, k) ==
    LET line == c[i + 1] IN
    IF StartsWith(line, StartTok)
    THEN [hunks |-> IF st.cur # <<>>
                    THEN Append(st.hunks,
                                Finalize(st.cur[1], c, st.hunk_start, i, k))
                    ELSE st.hunks,
          cur |-> <<ConflictHunk(line, i)>>, state |-> "ours", hunk_start |-> i]
    ELSE IF StartsWith(line, SepTok) /\ st.state = "ours"
    THEN [st EXCEPT !.state = "theirs"]
    ELSE IF StartsWith(line, EndTok) /\ st.state = "theirs"
    THEN [hunks |-> Append(st.hunks,
                      Finalize([st.cur[1] EXCEPT !.theirs = Append(@, line)],
                               c, st.hunk_start, i + 1, k)),
          cur |-> <<>>, state |-> "none", hunk_start |-> st.hunk_start]
    ELSE IF st.cur # <<>> /\ st.state # "none"
    THEN IF st.state = "ours"
         THEN [st EXCEPT !.cur = <<[st.cur[1] EXCEPT !.ours = Append(@, line)]>>]
         ELSE [st EXCEPT !.cur = <<[st.cur[1] EXCEPT !.theirs = Append(@, line)]>>]
    ELSE st

\* the scan state after the lines 0..n-1 of c
RECURSIVE Scan(_, _, _)
Scan(c, n, k) ==
    IF n = 0 THEN ScanInit ELSE ScanStep(Scan(c, n - 1, k), c, n - 1, k)

\* variant: hunks.insert(0, current_hunk) instead of hunks.append
get_conflicts_reversed(c, k) ==
    LET hs == Scan(c, Len(c), k).hunks
    IN [i \in 1..Len(hs) |-> hs[Len(hs) + 1 - i]]

\* variant: a hunk still open at the end of the file is returned as well
get_conflicts_flush(c, k) ==
    LET st == Scan(c, Len(c), k)
    IN IF st.cur # <<>>
       THEN Append(st.hunks, Finalize(st.cur[1], c, st.hunk_start, Len(c), k))
       ELSE st.hunks

\* get_conflicts on the lines c read from the file, with self.context_lines = k
get_conflicts(c, k) == Scan(c, Len(c), k).hunks

-----------------------------------------------------------------------------
(* display_file_view: the tag (colour) each line is printed with *)

\* variant: the end marker does not clear in_conflict
FileViewStepSticky(line, in_conflict) ==
    IF StartsWith(line, StartTok) THEN <<"start", TRUE>>
    ELSE IF StartsWith(line, SepTok) /\ in_conflict THEN <<"separator", TRUE>>
    ELSE IF StartsWith(line, EndTok) /\ in_conflict THEN <<"end", TRUE>>
    ELSE IF in_conflict THEN <<"conflict", TRUE>>
    ELSE <<"plain", FALSE>>

\* one iteration of the loop: <<tag of the line, in_conflict after it>>
FileViewStep(line, in_conflict) ==
    IF StartsWith(line, StartTok) THEN <<"start", TRUE>>
    ELSE IF StartsWith(line, SepTok) /\ in_conflict THEN <<"separator", TRUE>>
    ELSE IF StartsWith(line, EndTok) /\ in_conflict THEN <<"end", FALSE>>
    ELSE IF in_conflict THEN <<"conflict", TRUE>>
    ELSE <<"plain", FALSE>>

\* [tags of the lines 0..n-1, in_conflict after them]
RECURSIVE FileViewScan(_, _)
FileViewScan(c, n) ==
    IF n = 0 THEN [tags |-> <<>>, in_conflict |-> FALSE]
    ELSE LET prev == FileViewScan(c, n - 1)
             step == FileViewStep(c[n], prev.in_conflict)
         IN [tags |-> Append(prev.tags, step[1]), in_conflict |-> step[2]]

display_file_view(c) == FileViewScan(c, Len(c)).tags

-----------------------------------------------------------------------------
(* The working tree and the session. *)

Paths == {"f1", "f2"}

\* a file without markers, a file with one hunk and four lines before it,
\* a file with two hunks
NoMarkerFile == Build(<<"P", "P">>)
OneHunkFile == Build(<<"P", "P", "P", "P", "S", "P", "M", "P", "E", "P">>)
TwoHunkFile == Build(<<"S", "P", "M", "P", "E", "P", "S", "P", "M", "E">>)

RunContents == {NoMarkerFile, OneHunkFile, TwoHunkFile}

\* what the editor may leave in the file: the file as it was, or a file
\* without markers
EditorOutputs(old) == {old, NoMarkerFile}

\* list(set(conflicted)): the conflicted paths, each once, in any order
Orderings == {<<>>, <<"f1">>, <<"f2">>, <<"f1", "f2">>, <<"f2", "f1">>}

\* get_file_content: [] when the file cannot be read
get_file_content(fs, unr, p) == IF p \in unr THEN <<>> ELSE fs[p]

NoDisplay == [view |-> "none", tags |-> <<>>, shown |-> <<>>]

\* the top of the while loop of process_file: the file view reads the file
\* again, the hunk view prints the hunks process_file holds
Render(vm, fs, unr, p, hs) ==
    IF vm = "file"
    THEN [view |-> "file", tags |-> display_file_view(get_file_content(fs, unr, p)),
          shown |-> <<>>]
    ELSE [view |-> "hunk", tags |-> <<>>, shown |-> hs]

\* where main continues when process_file returns
ReturnPc == IF argv_mergetool /\ env_set THEN "mergetool_done" ELSE "loop"

\* the exit status of the process, once it has ended
Exited == pc \in {"no_conflicts", "mergetool_done", "all_processed", "quit", "crashed"}
ExitCode == IF pc = "crashed" THEN 1 ELSE 0

windowVars == <<start, end, window>>
envVars == <<argv_mergetool, env_set, merged, unmerged, unreadable>>

-----------------------------------------------------------------------------
(* The run: main and process_file. *)

Init ==
    /\ argv_mergetool \in BOOLEAN
    /\ env_set \in BOOLEAN
    /\ argv_mergetool = FALSE => env_set = FALSE
    /\ merged \in Paths
    /\ env_set = FALSE => merged = "f1"
    /\ unmerged \in Orderings
    /\ (argv_mergetool /\ env_set) => unmerged = <<>>
    /\ files \in [Paths -> RunContents]
    /\ unreadable \in SUBSET Paths
    /\ staged = {}
    /\ view_mode = "file"
    /\ context_lines = InitialContext
    /\ pc = "main"
    /\ todo = <<>>
    /\ file_path = "f1"
    /\ content = <<>>
    /\ hunks = <<>>
    /\ choice = "none"
    /\ display = NoDisplay
    /\ editor_rc = -1
    /\ ccount = 0
    /\ parsed = <<>>
    /\ start = 0
    /\ end = 0
    /\ window = [before |-> <<>>, after |-> <<>>]

\* variant: no return when the file has no hunks
ProcessFileEnterNoReturn(p) ==
    LET c == get_file_content(files, unreadable, p)
        hs == get_conflicts(c, context_lines)
    IN /\ file_path' = p
       /\ content' = c
       /\ hunks' = hs
       /\ parsed' = Append(parsed, p)
       /\ editor_rc' = -1
       /\ pc' = "prompt"
       /\ display' = Render(view_mode, files, unreadable, p, hs)

\* process_file(p) up to its first prompt, or to its return when the file
\* has no hunks
ProcessFileEnter(p) ==
    LET c == get_file_content(files, unreadable, p)
        hs == get_conflicts(c, context_lines)
    IN /\ file_path' = p
       /\ content' = c
       /\ hunks' = hs
       /\ parsed' = Append(parsed, p)
       /\ editor_rc' = -1
       /\ IF hs = <<>>
          THEN /\ pc' = ReturnPc
               /\ display' = display
          ELSE /\ pc' = "prompt"
               /\ display' = Render(view_mode, files, unreadable, p, hs)

\* main run with --mergetool and the four paths set
MainMergetool ==
    /\ pc = "main"
    /\ argv_mergetool /\ env_set
    /\ ProcessFileEnter(merged)
    /\ UNCHANGED <<envVars, files, staged, view_mode, context_lines, todo,
                   choice, ccount, windowVars>>

\* main in regular operation, up to the for loop
MainRegular ==
    /\ pc = "main"
    /\ ~(argv_mergetool /\ env_set)
    /\ IF unmerged = <<>>
       THEN pc' = "no_conflicts" /\ todo' = todo
       ELSE pc' = "loop" /\ todo' = unmerged
    /\ UNCHANGED <<envVars, editor_rc, files, staged, view_mode, context_lines, file_path,
                   content, hunks, choice, display, ccount, parsed, windowVars>>

\* one iteration of the for loop of main: process_file on the next path
ProcessNext ==
    /\ pc = "loop"
    /\ todo # <<>>
    /\ todo' = Tail(todo)
    /\ ProcessFileEnter(Head(todo))
    /\ UNCHANGED <<envVars, files, staged, view_mode, context_lines,
                   choice, ccount, windowVars>>

\* the for loop of main ends: "All conflicts processed."
Finish ==
    /\ pc = "loop"
    /\ todo = <<>>
    /\ pc' = "all_processed"
    /\ UNCHANGED <<envVars, editor_rc, files, staged, view_mode, context_lines, todo,
                   file_path, content, hunks, choice, display, ccount, parsed,
                   windowVars>>

\* variant: 'q' leaves the loop of this file only
QuitReturns ==
    /\ pc = "prompt"
    /\ choice' = "q"
    /\ pc' = ReturnPc
    /\ UNCHANGED <<envVars, editor_rc, files, staged, view_mode, context_lines, todo,
                   file_path, content, hunks, display, ccount, parsed,
                   windowVars>>

\* 'q': sys.exit(0)
Quit ==
    /\ pc = "prompt"
    /\ choice' = "q"
    /\ pc' = "quit"
    /\ UNCHANGED <<envVars, editor_rc, files, staged, view_mode, context_lines, todo,
                   file_path, content, hunks, display, ccount, parsed,
                   windowVars>>

\* 'm': flip the view mode, display again
ToggleView ==
    /\ pc = "prompt"
    /\ choice' = "m"
    /\ view_mode' = IF view_mode = "file" THEN "hunk" ELSE "file"
    /\ display' = Render(view_mode', files, unreadable, file_path, hunks)
    /\ UNCHANGED <<envVars, editor_rc, files, staged, context_lines, pc, todo, file_path,
                   content, hunks, ccount, parsed, windowVars>>

\* variant: no cap
more_context_uncapped(k) == k + ContextStep

\* self.context_lines after 'c'
more_context(k) == Min(k + ContextStep, ContextCap)

\* 'c': raise self.context_lines, display again; hunks is not recomputed
MoreContext ==
    /\ pc = "prompt"
    /\ choice' = "c"
    /\ context_lines' = more_context(context_lines)
    /\ ccount' = Min(ccount + 1, MaxMoreContext)
    /\ display' = Render(view_mode, files, unreadable, file_path, hunks)
    /\ UNCHANGED <<envVars, editor_rc, files, staged, view_mode, pc, todo, file_path,
                   content, hunks, parsed, windowVars>>

\* 'v': launch_vimdiff.  subprocess.run returns whatever vimdiff's exit
\* status ("ran"), raises a SubprocessError, which is caught ("caught"), or
\* raises an OSError when vimdiff cannot be started, which is not ("oserror")
Vimdiff ==
    /\ pc = "prompt"
    /\ choice' = "v"
    /\ \E outcome \in {"ran", "caught", "oserror"} :
          IF outcome = "oserror"
          THEN pc' = "crashed" /\ display' = display
          ELSE /\ pc' = pc
               /\ display' = Render(view_mode, files, unreadable, file_path, hunks)
    /\ UNCHANGED <<envVars, editor_rc, files, staged, view_mode, context_lines, todo,
                   file_path, content, hunks, ccount, parsed, windowVars>>

\* variant: the break follows the try statement, so a failed staging also
\* leaves the loop
EditBreaksAlways ==
    /\ pc = "prompt"
    /\ choice' = "e"
    /\ \E launched \in BOOLEAN, staging_ok \in BOOLEAN :
          IF ~launched
          THEN /\ pc' = "crashed"
               /\ UNCHANGED <<files, staged, display, editor_rc>>
          ELSE \E new \in EditorOutputs(files[file_path]), rc \in {0, 1} :
                 /\ files' = [files EXCEPT ![file_path] = new]
                 /\ editor_rc' = rc
                 /\ staged' = IF staging_ok THEN staged \cup {file_path} ELSE staged
                 /\ pc' = ReturnPc
                 /\ display' = display
    /\ UNCHANGED <<envVars, view_mode, context_lines, todo, file_path,
                   content, hunks, ccount, parsed, windowVars>>

\* 'e': run the editor, whose exit status (rc) is not looked at, then stage
\* the file; break when staging succeeds, display and prompt again when it
\* raises GitCommandError.  An editor that cannot be started raises OSError.
Edit ==
    /\ pc = "prompt"
    /\ choice' = "e"
    /\ \E launched \in BOOLEAN, staging_ok \in BOOLEAN :
          IF ~launched
          THEN /\ pc' = "crashed"
               /\ UNCHANGED <<files, staged, display, editor_rc>>
          ELSE \E new \in EditorOutputs(files[file_path]), rc \in {0, 1} :
                 /\ files' = [files EXCEPT ![file_path] = new]
                 /\ editor_rc' = rc
                 /\ IF staging_ok
                    THEN /\ staged' = staged \cup {file_path}
                         /\ pc' = ReturnPc
                         /\ display' = display
                    ELSE /\ staged' = staged
                         /\ pc' = pc
                         /\ display' = Render(view_mode, files', unreadable,
                                              file_path, hunks)
    /\ UNCHANGED <<envVars, view_mode, context_lines, todo, file_path,
                   content, hunks, ccount, parsed, windowVars>>

\* 'o', 't' and 's' all take the else branch, self.resolve_hunk(...).
\* GitConflictResolver defines no resolve_hunk: the attribute lookup raises
\* AttributeError, which nothing catches.
ResolveHunk ==
    /\ pc = "prompt"
    /\ \E ch \in {"o", "t", "s"} : choice' = ch
    /\ pc' = "crashed"
    /\ UNCHANGED <<envVars, editor_rc, files, staged, view_mode, context_lines, todo,
                   file_path, content, hunks, display, ccount, parsed,
                   windowVars>>

Next ==
    \/ MainMergetool
    \/ MainRegular
    \/ ProcessNext
    \/ Finish
    \/ Quit
    \/ ToggleView
    \/ MoreContext
    \/ Vimdiff
    \/ Edit
    \/ ResolveHunk

Spec == Init /\ [][Next]_vars

-----------------------------------------------------------------------------
(* get_conflicts on its own: every file of the bounded family, at every    *)
(* context size the session can have.                                      *)

Cores == UNION {[1..n -> Kinds] : n \in 0..MaxCore}

\* a run of at most MaxCore lines of any kinds, alone or with MaxPad plain
\* lines before it and MaxPad after it
ParseContents ==
    {Build(Plains(p) \o core \o Plains(p)) : p \in {0, MaxPad}, core \in Cores}

\* the session as __init__ leaves it, with nothing of main run
SessionIdle ==
    /\ argv_mergetool = FALSE
    /\ env_set = FALSE
    /\ merged = "f1"
    /\ unmerged = <<>>
    /\ files = [p \in Paths |-> <<>>]
    /\ unreadable = {}
    /\ staged = {}
    /\ view_mode = "file"
    /\ todo = <<>>
    /\ file_path = "f1"
    /\ hunks = <<>>
    /\ choice = "none"
    /\ display = NoDisplay
    /\ editor_rc = -1
    /\ ccount = 0
    /\ parsed = <<>>
    /\ window = [before |-> <<>>, after |-> <<>>]

InitParse ==
    /\ SessionIdle
    /\ content \in ParseContents
    /\ context_lines \in ContextSizes
    /\ pc = "parse"
    /\ start = 0
    /\ end = 0

\* hunks = self.get_conflicts(file_path), the file holding content
GetConflicts ==
    /\ pc = "parse"
    /\ hunks' = get_conflicts(content, context_lines)
    /\ pc' = "parsed"
    /\ UNCHANGED <<envVars, editor_rc, files, staged, view_mode, context_lines, todo,
                   file_path, content, choice, display, ccount, parsed,
                   windowVars>>

\* self.display_file_view(file_path, hunks), the file holding content
DisplayFileView ==
    /\ pc = "parsed"
    /\ display' = [view |-> "file", tags |-> display_file_view(content),
                   shown |-> <<>>]
    /\ pc' = "displayed"
    /\ UNCHANGED <<envVars, editor_rc, files, staged, view_mode, context_lines,
                   todo, file_path, content, hunks, choice, ccount, parsed,
                   windowVars>>

NextParse == GetConflicts \/ DisplayFileView

SpecParse == InitParse /\ [][NextParse]_vars

-----------------------------------------------------------------------------
(* extract_context on its own: files of pairwise distinct lines, every     *)
(* start <= end within the file, every context size the session can have.  *)

InitWindow ==
    /\ SessionIdle
    /\ \E n \in 0..MaxWinLen :
          /\ content = Build(Plains(n))
          /\ start \in 0..n
          /\ end \in 0..n
          /\ start <= end
    /\ context_lines \in ContextSizes
    /\ pc = "window"

\* before, after = self.extract_context(content, start, end)
ExtractContext ==
    /\ pc = "window"
    /\ window' = extract_context(content, start, end, context_lines)
    /\ pc' = "windowed"
    /\ UNCHANGED <<envVars, editor_rc, files, staged, view_mode, context_lines, todo,
                   file_path, content, hunks, choice, display, ccount, parsed,
                   start, end>>

NextWindow == ExtractContext

SpecWindow == InitWindow /\ [][NextWindow]_vars

-----------------------------------------------------------------------------
(* Vocabulary of the properties. *)

Range(s) == {s[i] : i \in 1..Len(s)}

\* the lines lo..hi (zero-based, inclusive) of c, in order
Lines(c, lo, hi) == [j \in 1..(hi - lo + 1) |-> c[lo + j]]

IsStart(c, i) == StartsWith(c[i + 1], StartTok)
IsSep(c, i) == StartsWith(c[i + 1], SepTok)
IsEnd(c, i) == StartsWith(c[i + 1], EndTok)

IsPrefix(a, b) == Len(a) <= Len(b) /\ SubSeq(b, 1, Len(a)) = a
IsSuffix(a, b) == Len(a) <= Len(b) /\ SubSeq(b, Len(b) - Len(a) + 1, Len(b)) = a

\* the hunk was closed by an end marker: its last theirs line is that marker
Closed(h) == h.theirs # <<>> /\ StartsWith(h.theirs[Len(h.theirs)], EndTok)

\* index of the end marker of a closed hunk: header, ours, separator, theirs
HunkEnd(h) == h.start_line + Len(h.ours) + Len(h.theirs) + 1

\* start marker at s, separator at m, end marker at e, no marker-prefixed
\* line in the bodies
WellFormed(c, s, m, e) ==
    /\ 0 <= s /\ s < m /\ m < e /\ e < Len(c)
    /\ IsStart(c, s) /\ IsSep(c, m) /\ IsEnd(c, e)
    /\ \A j \in (s + 1)..(e - 1) : j # m => ~IsMarker(c[j + 1])

\* the hunk is one well-formed hunk of c
WellFormedHunk(c, h) ==
    /\ Closed(h)
    /\ \E m \in 0..(Len(c) - 1) : WellFormed(c, h.start_line, m, HunkEnd(h))

\* the file with the hunk replaced by the body of the side kept
Reconstructed(c, h, ch) ==
    SubSeq(c, 1, h.start_line)
      \o (IF ch = "o" THEN h.ours ELSE SubSeq(h.theirs, 1, Len(h.theirs) - 1))
      \o SubSeq(c, HunkEnd(h) + 2, Len(c))

-----------------------------------------------------------------------------
(* The controller and the driver. *)

\* C1: at the prompt of a file that holds exactly one well-formed hunk, 'o'
\* or 't' rewrites the file to the lines before the hunk, the body of the
\* side kept and the lines after the hunk, and process_file returns
\* (Resolved).
C1_KeepSideRewritesFile ==
    [][(/\ pc = "prompt"
        /\ choice' \in {"o", "t"}
        /\ Len(hunks) = 1
        /\ files[file_path] = content
        /\ WellFormedHunk(content, hunks[1]))
       => (/\ files' = [files EXCEPT ![file_path] =
                           Reconstructed(content, hunks[1], choice')]
           /\ pc' = ReturnPc)]_vars

\* C2: 's' at the prompt leaves the working tree and the index as they are,
\* process_file returns without error (Skipped) and main goes on with the
\* paths that are left.
C2_SkipLeavesFileAndProceeds ==
    [][(pc = "prompt" /\ choice' = "s")
       => (/\ files' = files
           /\ staged' = staged
           /\ todo' = todo
           /\ pc' = ReturnPc)]_vars

\* C3: 'q' at a prompt ends the run at once: the step changes no file and
\* stages nothing, and from then on nothing is parsed, displayed or
\* prompted for, whatever paths are left.
C3_QuitAborts ==
    [][/\ (pc = "prompt" /\ choice' = "q")
            => (pc' = "quit" /\ files' = files /\ staged' = staged)
       /\ pc = "quit"
            => (/\ pc' = "quit"
                /\ parsed' = parsed
                /\ display' = display
                /\ files' = files
                /\ staged' = staged)]_vars

\* a run that was quit at the first prompt with a conflicted path left
C3_Witness ==
    /\ pc = "quit"
    /\ choice = "q"
    /\ todo # <<>>
    /\ Len(parsed) = 1

\* the size after n 'c' commands: 3, 6, 9, 10, 10, ...
SizeAfter(n) == IF n = 0 THEN 3 ELSE IF n = 1 THEN 6 ELSE IF n = 2 THEN 9 ELSE 10

\* C4: the context size starts at 3, each 'c' sets it to min(size + 3, 10),
\* so that it is 6, 9, 10, 10 after one to four commands; it stays within
\* 3..10 and never decreases, over the whole run.
C4_ContextSize ==
    /\ context_lines = 3
    /\ [][/\ (pc = "prompt" /\ choice' = "c")
               => context_lines' = Min(context_lines + 3, 10)
          /\ context_lines' = SizeAfter(ccount')
          /\ context_lines' \in 3..10
          /\ context_lines' >= context_lines]_vars

\* four 'c' commands, the last ones at the prompt of a second file
C4_Witness ==
    /\ pc = "prompt"
    /\ choice = "c"
    /\ ccount = 4
    /\ context_lines = 10
    /\ Len(parsed) = 2

\* the hunk carries the windows of its span at size k
Windowed(c, h, k) ==
    /\ h.context_before = Lines(c, Max(0, h.start_line - k), h.start_line - 1)
    /\ h.context_after =
          Lines(c, HunkEnd(h) + 1, Min(Len(c), HunkEnd(h) + 1 + k) - 1)

\* C5: at the prompt that follows a 'c', every hunk of the file carries the
\* windows of the new context size.
C5_MoreContextRewindows ==
    (pc = "prompt" /\ choice = "c")
        => \A i \in 1..Len(hunks) :
              Closed(hunks[i]) => Windowed(content, hunks[i], context_lines)

-----------------------------------------------------------------------------
(* The parser. *)

\* some separator and then some end marker follow the start marker at s,
\* with no start marker from s to that end marker
ClosedRegion(c, s) ==
    \E m \in (s + 1)..(Len(c) - 1) :
       /\ IsSep(c, m)
       /\ \E e \in (m + 1)..(Len(c) - 1) :
             /\ IsEnd(c, e)
             /\ \A j \in (s + 1)..(e - 1) : ~IsStart(c, j)

\* C6 as claimed: every hunk returned is a start marker, a separator and an
\* end marker in that order with no start marker between them; a start
\* marker that is not closed so gives no hunk.
C6_EveryHunkClosed ==
    pc = "parsed"
        => \A i \in 1..Len(hunks) :
              /\ IsStart(content, hunks[i].start_line)
              /\ ClosedRegion(content, hunks[i].start_line)

\* the start markers of c that give a hunk: those closed by their own
\* separator and end marker, and those cut short by a later start marker
HunkStarts(c) ==
    {s \in 0..(Len(c) - 1) :
        /\ IsStart(c, s)
        /\ \/ ClosedRegion(c, s)
           \/ \E j \in (s + 1)..(Len(c) - 1) : IsStart(c, j)}

\* C6 as amended: the hunks returned are, one each, the start markers that
\* are closed by their own separator and end marker or that are followed by
\* another start marker; a hunk is closed by an end
\* marker exactly when its region is closed; only a start marker left open
\* at the end of the file gives no hunk.
C6_HunksAreClosedOrCutShort ==
    pc = "parsed"
        => /\ {hunks[i].start_line : i \in 1..Len(hunks)} = HunkStarts(content)
           /\ Len(hunks) = Cardinality(HunkStarts(content))
           /\ \A i \in 1..Len(hunks) :
                 Closed(hunks[i]) <=> ClosedRegion(content, hunks[i].start_line)

\* a hunk cut short by the next start marker is returned before a closed one
C6_Witness ==
    /\ pc = "parsed"
    /\ Len(hunks) = 2
    /\ ~Closed(hunks[1])
    /\ hunks[1].ours # <<>>
    /\ Closed(hunks[2])

\* C7 as claimed: no ours line begins with a marker token, no theirs line
\* but the last begins with one, and the separator is in neither buffer.
C7_NoMarkerInBuffers ==
    pc = "parsed"
        => \A i \in 1..Len(hunks) :
              /\ \A j \in 1..Len(hunks[i].ours) : ~IsMarker(hunks[i].ours[j])
              /\ \A j \in 1..(Len(hunks[i].theirs) - 1) :
                    ~IsMarker(hunks[i].theirs[j])

\* C7 as amended: no ours line begins with <<<<<<< or =======, no theirs
\* line begins with <<<<<<<, a theirs line beginning with >>>>>>> is the
\* last one, and the separator that ended the ours side is in neither
\* buffer: ours is the lines right after the header, the separator is the
\* line after them, theirs is the lines right after the separator.
C7_BuffersHoldNoOwnMarker ==
    pc = "parsed"
        => \A i \in 1..Len(hunks) :
              LET h == hunks[i]
                  m == h.start_line + Len(h.ours) + 1
              IN /\ \A j \in 1..Len(h.ours) :
                       /\ ~StartsWith(h.ours[j], StartTok)
                       /\ ~StartsWith(h.ours[j], SepTok)
                 /\ \A j \in 1..Len(h.theirs) :
                       /\ ~StartsWith(h.theirs[j], StartTok)
                       /\ StartsWith(h.theirs[j], EndTok) => j = Len(h.theirs)
                 /\ h.ours = Lines(content, h.start_line + 1, m - 1)
                 /\ h.theirs # <<>>
                       => /\ IsSep(content, m)
                          /\ h.theirs = Lines(content, m + 1, m + Len(h.theirs))
                          /\ content[m + 1] \notin Range(h.ours) \cup Range(h.theirs)

\* a closed hunk that keeps an end-marker line in ours and a separator line
\* in theirs
C7_Witness ==
    /\ pc = "parsed"
    /\ \E i \in 1..Len(hunks) :
          /\ Closed(hunks[i])
          /\ \E j \in 1..Len(hunks[i].ours) : StartsWith(hunks[i].ours[j], EndTok)
          /\ \E j \in 1..Len(hunks[i].theirs) : StartsWith(hunks[i].theirs[j], SepTok)

\* C8: a well-formed hunk (start marker at s, first separator at m, end
\* marker at e, no marker-prefixed line in the bodies) is returned with
\* header line s, start_line s, ours the lines s+1..m-1 and theirs the lines
\* m+1..e-1 followed by line e.
C8_WellFormedHunkFields ==
    pc = "parsed"
        => \A s \in 0..(Len(content) - 1) :
              IsStart(content, s)
                 => \A m \in (s + 1)..(Len(content) - 1) :
                       IsSep(content, m)
                          => \A e \in (m + 1)..(Len(content) - 1) :
                                WellFormed(content, s, m, e)
                                   => \E i \in 1..Len(hunks) :
                                         /\ hunks[i].start_line = s
                                         /\ hunks[i].header = content[s + 1]
                                         /\ hunks[i].ours = Lines(content, s + 1, m - 1)
                                         /\ hunks[i].theirs =
                                               Append(Lines(content, m + 1, e - 1),
                                                      content[e + 1])

\* a well-formed hunk with two ours lines and one theirs line before the end
\* marker
C8_Witness ==
    /\ pc = "parsed"
    /\ \E s, m, e \in 0..(Len(content) - 1) :
          WellFormed(content, s, m, e) /\ m = s + 3 /\ e = m + 2

\* C9: a hunk closed by an end marker (header at s, end marker at e), in a
\* file of n lines parsed at context size k, has context_before the lines
\* max(0, s-k)..s-1 and context_after the lines e+1..min(n, e+1+k)-1; both
\* are at most k long and hold no line of s..e.
C9_ContextOfClosedHunk ==
    pc = "parsed"
        => \A i \in 1..Len(hunks) :
              Closed(hunks[i])
                 => LET h == hunks[i]
                        s == h.start_line
                        e == HunkEnd(h)
                        k == context_lines
                        n == Len(content)
                    IN /\ IsEnd(content, e)
                       /\ h.context_before = Lines(content, Max(0, s - k), s - 1)
                       /\ h.context_after =
                             Lines(content, e + 1, Min(n, e + 1 + k) - 1)
                       /\ Len(h.context_before) <= k
                       /\ Len(h.context_after) <= k
                       /\ \A j \in s..e :
                             content[j + 1] \notin
                                Range(h.context_before) \cup Range(h.context_after)

\* a closed hunk with more than k lines before it and more than k after it
C9_Witness ==
    /\ pc = "parsed"
    /\ \E i \in 1..Len(hunks) :
          /\ Closed(hunks[i])
          /\ hunks[i].start_line > context_lines
          /\ Len(content) - 1 - HunkEnd(hunks[i]) > context_lines
          /\ Len(hunks[i].context_before) = context_lines
          /\ Len(hunks[i].context_after) = context_lines

\* C10: for sizes k <= k2 the before-window at k is a suffix of the one at
\* k2 and the after-window at k a prefix of the one at k2; the before-window
\* has at most the start lines that precede start, the after-window at most
\* the lines from end on.
C10_WindowMonotonic ==
    pc = "windowed"
        => /\ \A k2 \in ContextSizes :
                 k2 >= context_lines
                    => /\ IsSuffix(window.before,
                                   extract_context(content, start, end, k2).before)
                       /\ IsPrefix(window.after,
                                   extract_context(content, start, end, k2).after)
           /\ Len(window.before) <= start
           /\ Len(window.after) <= Len(content) - end
           /\ IsSuffix(window.before, SubSeq(content, 1, start))
           /\ IsPrefix(window.after, SubSeq(content, end + 1, Len(content)))

\* windows that the size cuts on both sides and that a larger size extends
C10_Witness ==
    /\ pc = "windowed"
    /\ context_lines = 3
    /\ start > 3
    /\ Len(content) - end > 3
    /\ Len(window.before) = 3
    /\ Len(window.after) = 3

\* the line begins with seven ch
SevenOf(line, ch) == Len(line) >= 7 /\ \A j \in 1..7 : line[j] = ch

\* the line begins with none of <<<<<<<, =======, >>>>>>>
NoToken(line) == ~SevenOf(line, "<") /\ ~SevenOf(line, "=") /\ ~SevenOf(line, ">")

\* every start marker of c opens a well-formed hunk
AllWellFormed(c) ==
    \A s \in 0..(Len(c) - 1) :
       IsStart(c, s)
          => \E m \in (s + 1)..(Len(c) - 1) :
                /\ IsSep(c, m)
                /\ \E e \in (m + 1)..(Len(c) - 1) : WellFormed(c, s, m, e)

\* index of the last line the scan consumed for the hunk: its end marker or
\* last theirs line, else its separator, else its last ours line or header
LastLine(c, h) ==
    LET m == h.start_line + Len(h.ours) + 1
    IN IF h.theirs # <<>> THEN m + Len(h.theirs)
       ELSE IF m < Len(c) /\ IsSep(c, m) THEN m
       ELSE m - 1

\* C11: the hunks come in file order with strictly increasing start_line,
\* the line ranges header..last consumed line of two hunks do not overlap,
\* and a file of N well-formed hunks gives exactly N hunks.
C11_FileOrderNoOverlap ==
    pc = "parsed"
        => /\ \A i \in 1..Len(hunks) :
                 /\ 0 <= hunks[i].start_line
                 /\ hunks[i].start_line <= LastLine(content, hunks[i])
                 /\ LastLine(content, hunks[i]) < Len(content)
           /\ \A i, j \in 1..Len(hunks) :
                 i < j => LastLine(content, hunks[i]) < hunks[j].start_line
           /\ AllWellFormed(content)
                 => Len(hunks) =
                       Cardinality({s \in 0..(Len(content) - 1) : IsStart(content, s)})

\* two well-formed hunks one after the other
C11_Witness ==
    /\ pc = "parsed"
    /\ AllWellFormed(content)
    /\ Len(hunks) = 2
    /\ hunks[2].start_line = HunkEnd(hunks[1]) + 1

\* C12: content in which no line begins with <<<<<<<, ======= or >>>>>>>
\* gives no hunk; so does the empty file.
C12_NoMarkersNoHunks ==
    pc = "parsed"
        => ((\A i \in 1..Len(content) : NoToken(content[i])) => hunks = <<>>)

\* a parsed file of plain lines, near misses of the markers among them
C12_Witness ==
    /\ pc = "parsed"
    /\ Len(content) >= 6
    /\ \A i \in 1..Len(content) : NoToken(content[i])
    /\ \E i \in 1..Len(content) : content[i][1] = "<"
    /\ hunks = <<>>

\* C13: when the last start marker of the file is not closed, no hunk is
\* returned for it, and every start marker closed before it still gives its
\* closed hunk.
C13_TrailingOpenHunkDropped ==
    pc = "parsed"
        => \A s \in 0..(Len(content) - 1) :
              (/\ IsStart(content, s)
               /\ \A j \in (s + 1)..(Len(content) - 1) : ~IsStart(content, j)
               /\ ~ClosedRegion(content, s))
                 => /\ \A i \in 1..Len(hunks) : hunks[i].start_line # s
                    /\ \A i \in 1..Len(hunks) : LastLine(content, hunks[i]) < s
                    /\ \A s2 \in 0..(s - 1) :
                          (IsStart(content, s2) /\ ClosedRegion(content, s2))
                             => \E i \in 1..Len(hunks) :
                                   /\ hunks[i].start_line = s2
                                   /\ Closed(hunks[i])

\* a closed hunk followed by a start marker and its separator, left open
C13_Witness ==
    /\ pc = "parsed"
    /\ Len(hunks) = 1
    /\ Closed(hunks[1])
    /\ \E s \in (HunkEnd(hunks[1]) + 1)..(Len(content) - 2) :
          IsStart(content, s) /\ IsSep(content, s + 1)

-----------------------------------------------------------------------------
(* The driver, the editor and the renderer. *)

\* C14: in a run started with --mergetool only the merged path is passed to
\* process_file, no path of the conflicted-file list is processed, and the
\* process exits with code 0.
C14_MergetoolOnlyMerged ==
    argv_mergetool
        => /\ \A i \in 1..Len(parsed) : parsed[i] = merged
           /\ Len(parsed) <= 1
           /\ todo = <<>>
           /\ pc \notin {"loop", "all_processed"}
           /\ Exited => ExitCode = 0

\* C15: 'o' or 't' at the prompt of a file with two or more hunks resolves
\* the first hunk and only it: the lines of that hunk are replaced by the
\* body of the side kept, every other line, the later hunks and their
\* markers included, stays as it is.
C15_KeepSideActsOnFirstHunk ==
    [][(/\ pc = "prompt"
        /\ choice' \in {"o", "t"}
        /\ Len(hunks) >= 2
        /\ files[file_path] = content
        /\ WellFormedHunk(content, hunks[1]))
       => files'[file_path] = Reconstructed(content, hunks[1], choice')]_vars

\* C16: when the editor run by 'e' exits with a non-zero status, the file
\* is not staged and the controller prompts again.
C16_EditorFailureIsNoOp ==
    [][(/\ pc = "prompt"
        /\ choice' = "e"
        /\ pc' # "crashed"
        /\ editor_rc' # 0)
       => (staged' = staged /\ pc' = "prompt")]_vars

\* C17: on 'e' the editor has run before anything is staged; when staging
\* succeeds process_file returns (Resolved) with the file staged, when it
\* fails nothing is staged and the controller displays and prompts again;
\* an editor that could not be started stages nothing.
C17_EditStagesBeforeResolved ==
    [][(pc = "prompt" /\ choice' = "e")
       => /\ pc' \in {ReturnPc, "prompt", "crashed"}
          /\ staged' # staged => editor_rc' \in {0, 1}
          /\ pc' = ReturnPc
                => (file_path \in staged' /\ editor_rc' \in {0, 1})
          /\ pc' = "prompt"
                => /\ staged' = staged
                   /\ file_path \notin staged'
                   /\ editor_rc' \in {0, 1}
                   /\ display' = Render(view_mode, files', unreadable,
                                        file_path, hunks)
          /\ pc' = "crashed" => (staged' = staged /\ files' = files)]_vars

\* the first file was edited to a file without markers and staged, main is
\* back in its loop
C17_Witness ==
    /\ pc = "loop"
    /\ choice = "e"
    /\ Len(parsed) = 1
    /\ file_path \in staged
    /\ editor_rc = 0
    /\ content # NoMarkerFile
    /\ files[file_path] = NoMarkerFile

\* C18: 'm', 'c' and 'v' leave the controller at the prompt of the same
\* file and change neither the working tree nor the index; 'm' flips the
\* view mode and nothing else of the session, 'c' changes only the context
\* size, 'v' changes nothing of the session.
C18_ViewCommandsKeepLoop ==
    [][(pc = "prompt" /\ choice' \in {"m", "c", "v"})
       => /\ pc' = "prompt"
          /\ file_path' = file_path
          /\ files' = files
          /\ staged' = staged
          /\ choice' = "m"
                => /\ context_lines' = context_lines
                   /\ view_mode' # view_mode
                   /\ view_mode' \in {"file", "hunk"}
          /\ choice' = "c" => view_mode' = view_mode
          /\ choice' = "v"
                => (view_mode' = view_mode /\ context_lines' = context_lines)]_vars

NoDuplicates(s) == \A i, j \in 1..Len(s) : i # j => s[i] # s[j]

\* C19: a path is parsed when main takes it up, and only then; when the
\* parse gives no hunk (an unreadable file gives none) process_file returns
\* with nothing displayed, prompted or modified; otherwise the controller
\* prompts, and no other path is taken up while it does; no path is taken
\* up twice.
C19_DriverParsesThenPrompts ==
    /\ [](pc = "prompt"
            => /\ hunks # <<>>
               /\ parsed # <<>>
               /\ file_path = parsed[Len(parsed)]
               /\ file_path \notin unreadable)
    /\ [](NoDuplicates(parsed))
    /\ [][/\ pc = "prompt" => parsed' = parsed
          /\ parsed' # parsed
                => /\ pc \in {"main", "loop"}
                   /\ parsed' = Append(parsed, file_path')
                   /\ hunks' = <<>>
                         => /\ pc' = ReturnPc
                            /\ files' = files
                            /\ staged' = staged
                            /\ display' = display
                            /\ choice' = choice
                   /\ hunks' # <<>>
                         => (pc' = "prompt" /\ display'.view = view_mode)]_vars

\* the first path could not be read and was passed over without a prompt,
\* the second one is at its first prompt
C19_Witness ==
    /\ pc = "prompt"
    /\ Len(parsed) = 2
    /\ parsed[1] \in unreadable
    /\ choice = "none"
    /\ files = [p \in Paths |-> OneHunkFile]

\* the line indices that lie in the span of a hunk
HunkSpans(hs) ==
    UNION {hs[i].start_line..HunkEnd(hs[i]) : i \in 1..Len(hs)}

\* C20: for a file whose start markers all open well-formed hunks, the
\* lines display_file_view prints as part of a conflict are exactly the
\* lines start_line..end marker of the hunks get_conflicts returns; every
\* other line is printed plain.
C20_FileViewAgreesWithParser ==
    (pc = "displayed" /\ AllWellFormed(content))
        => /\ Len(display.tags) = Len(content)
           /\ {i \in 0..(Len(content) - 1) : display.tags[i + 1] # "plain"}
                 = HunkSpans(hunks)

\* two well-formed hunks with plain lines before the first and after the
\* second
C20_Witness ==
    /\ pc = "displayed"
    /\ AllWellFormed(content)
    /\ Len(hunks) = 2
    /\ hunks[1].start_line > 0
    /\ HunkEnd(hunks[2]) < Len(content) - 1
    /\ display.tags[Len(content)] = "plain"

====
